---- MODULE Spec2Model ----
(***************************************************************************)
(* Model of menpowidgets' index animation driver:                          *)
(* AnimationOptionsWidget (options.py) together with its index selector    *)
(* IndexButtonsWidget (tools.py).                                          *)
(*                                                                         *)
(* The kernel is single threaded.  A handler runs to completion except     *)
(* inside animate, whose while loop calls kernel.do_one_iteration(): that  *)
(* call handles at most one pending request, whose handlers run nested in  *)
(* the loop.  `stack' is the call stack of animate loops.                  *)
(***************************************************************************)
EXTENDS Integers, Sequences, FiniteSets, TLC

\* Largest value of index['max'] handed to the widget.
MaxIndex == 3
\* The values of index['min'] and of index['step'] handed to the widget.
Mins == {0, 1}
Steps == {1, 2}

VARIABLES
    min,                 \* AnimationOptionsWidget.min
    max,                 \* AnimationOptionsWidget.max
    step,                \* AnimationOptionsWidget.step
    selected_values,     \* AnimationOptionsWidget.selected_values
    render_function,     \* TRUE iff a render callback observes selected_values
    loop_checkbox,       \* loop_checkbox.value
    play_stop_toggle,    \* [value, icon, button_style]
    play_options_toggle, \* [value, disabled]
    loop_interval_box,   \* [visible]
    index_wid,           \* IndexButtonsWidget: [min, max, step, loop_enabled, selected_values]
    index_text,          \* BoundedIntText: [min, max, value]
    stack,               \* running animate calls, innermost last
    op,                  \* the operation that ran last
    renders,             \* number of calls of the render callback in the last operation
    raised,              \* exception the last operation ended with, or "none"
    interval_text,       \* sign of interval_text.value: -1, 0 or 1
    index_style,         \* 'buttons' or 'slider'
    MENPO_LOGO,          \* MENPO_<STYLE>_LOGO by style: the memoized logo, or NoLogo
    MENPO_LOGO_SCALE,    \* MENPO_LOGO_SCALE, or NoScale
    image,               \* self.image of the LogoWidget built last
    toggle_style,        \* [play, stop]: self._toggle_play_style, self._toggle_stop_style
    selected_index,      \* options_box.selected_index: the tab shown
    other                \* a second AnimationOptionsWidget: [value, selected_values, loop]

widget == <<min, max, step, selected_values, render_function, loop_checkbox,
            play_stop_toggle, play_options_toggle, loop_interval_box,
            index_wid, index_text, toggle_style>>

vars == <<min, max, step, selected_values, render_function, loop_checkbox,
          play_stop_toggle, play_options_toggle, loop_interval_box,
          index_wid, index_text, stack, op, renders, raised,
          interval_text, index_style, MENPO_LOGO, MENPO_LOGO_SCALE, image,
          toggle_style, selected_index, other>>

\* What no handler of the animation widget assigns.
fixed == <<interval_text, index_style, MENPO_LOGO, MENPO_LOGO_SCALE, image,
           selected_index, other>>

\* interval_text.value by its sign; the constructor's default interval=0.2
\* is positive.
Intervals == {-1, 0, 1}
DefaultInterval == 1

IndexStyles == {"buttons", "slider"}

\* The index dictionaries {'min', 'max', 'step', 'index'} a caller hands over:
\* min <= max and step > 0; index may lie outside [min, max].
IndexDicts ==
    { [min |-> a, max |-> b, step |-> c, index |-> d] :
        a \in Mins, b \in 0..MaxIndex, c \in Steps, d \in 0..(MaxIndex + 1) }

ValidRange(index) == index.min <= index.max /\ index.step > 0

InRange(index) == index.min <= index.index /\ index.index <= index.max

\* The widget's fields as one record; handlers are functions on it.
S ==
    [min |-> min, max |-> max, step |-> step,
     selected_values |-> selected_values,
     render_function |-> render_function,
     loop_checkbox |-> loop_checkbox,
     play_stop_toggle |-> play_stop_toggle,
     play_options_toggle |-> play_options_toggle,
     loop_interval_box |-> loop_interval_box,
     index_wid |-> index_wid,
     index_text |-> index_text,
     toggle_style |-> toggle_style,
     renders |-> 0,
     raised |-> "none"]

Apply(t) ==
    /\ min' = t.min
    /\ max' = t.max
    /\ step' = t.step
    /\ selected_values' = t.selected_values
    /\ render_function' = t.render_function
    /\ loop_checkbox' = t.loop_checkbox
    /\ play_stop_toggle' = t.play_stop_toggle
    /\ play_options_toggle' = t.play_options_toggle
    /\ loop_interval_box' = t.loop_interval_box
    /\ index_wid' = t.index_wid
    /\ index_text' = t.index_text
    /\ toggle_style' = t.toggle_style
    /\ renders' = t.renders
    /\ raised' = t.raised
    /\ UNCHANGED fixed

----------------------------------------------------------------------------
\* Trait assignments and their observers.  An observer runs only when the
\* assigned value differs from the trait's value.

\* self._render_function(name, value), registered on selected_values.
Render(s) ==
    IF s.render_function THEN [s EXCEPT !.renders = @ + 1] ELSE s

\* self.selected_values = v
SetSelectedValues(s, v) ==
    IF v = s.selected_values THEN s
    ELSE Render([s EXCEPT !.selected_values = v])

\* save_value: self.selected_values = self.index_wid.selected_values
save_value(s) == SetSelectedValues(s, s.index_wid.selected_values)

\* save_index: self.selected_values = int(value), observed by save_value
save_index(s, value) ==
    IF value = s.index_wid.selected_values THEN s
    ELSE save_value([s EXCEPT !.index_wid.selected_values = value])

\* BoundedIntText caps and floors an assigned value.
Clamp(v, lo, hi) == IF v < lo THEN lo ELSE IF v > hi THEN hi ELSE v

\* SetIndexText with the render callback called on every write, changed or not.
SetIndexText_render_always(s, v) ==
    LET c == Clamp(v, s.index_text.min, s.index_text.max) IN
    IF c = s.index_text.value THEN Render(s)
    ELSE save_index([s EXCEPT !.index_text.value = c], c)

\* self.index_wid.index_text.value = v, observed by save_index
SetIndexText(s, v) ==
    LET c == Clamp(v, s.index_text.min, s.index_text.max) IN
    IF c = s.index_text.value THEN s
    ELSE save_index([s EXCEPT !.index_text.value = c], c)

\* play_options_visibility: self.loop_interval_box.visible = value
play_options_visibility(s, value) ==
    [s EXCEPT !.loop_interval_box.visible = value]

\* self.play_options_toggle.value = v
SetPlayOptions(s, v) ==
    IF v = s.play_options_toggle.value THEN s
    ELSE play_options_visibility([s EXCEPT !.play_options_toggle.value = v], v)

\* play_stop_pressed with the icon left as it is when Stop is pressed.
play_stop_pressed_keeps_icon(s, value) ==
    LET t == IF value
             THEN SetPlayOptions(
                    [s EXCEPT !.play_stop_toggle.button_style = s.toggle_style.stop,
                              !.play_stop_toggle.icon = "fa-stop"], FALSE)
             ELSE [s EXCEPT !.play_stop_toggle.button_style = s.toggle_style.play]
    IN [t EXCEPT !.play_options_toggle.disabled = value]

\* play_stop_pressed without the assignment of play_options_toggle.disabled.
play_stop_pressed_leaves_enabled(s, value) ==
    IF value
    THEN SetPlayOptions(
           [s EXCEPT !.play_stop_toggle.button_style = s.toggle_style.stop,
                     !.play_stop_toggle.icon = "fa-stop"], FALSE)
    ELSE [s EXCEPT !.play_stop_toggle.button_style = s.toggle_style.play,
                   !.play_stop_toggle.icon = "fa-play"]

\* play_stop_pressed(name, value)
play_stop_pressed(s, value) ==
    LET t == IF value
             THEN SetPlayOptions(
                    [s EXCEPT !.play_stop_toggle.button_style = s.toggle_style.stop,
                              !.play_stop_toggle.icon = "fa-stop"], FALSE)
             ELSE [s EXCEPT !.play_stop_toggle.button_style = s.toggle_style.play,
                            !.play_stop_toggle.icon = "fa-play"]
    IN [t EXCEPT !.play_options_toggle.disabled = value]

\* The styles predefined_style accepts: 'minimal', and 'info' for the branch
\* that 'info', 'success', 'danger' and 'warning' share.
PredefinedStyles == {"minimal", "info"}

\* self._toggle_play_style and self._toggle_stop_style of a style.
ToggleStyles(style) ==
    IF style = "minimal"
    THEN [play |-> "", stop |-> ""]
    ELSE [play |-> "success", stop |-> "danger"]

\* predefined_style(style): the play/stop button gets the play style of the
\* style, whatever the toggle's value.
predefined_style(s, style) ==
    [s EXCEPT !.play_stop_toggle.button_style = ToggleStyles(style).play,
              !.toggle_style = ToggleStyles(style)]

\* animate(name, value) entered with the toggle False: neither while loop is
\* entered; the loop-disabled branch may assign False to the toggle again.
animate_stopped(s) ==
    IF s.loop_checkbox THEN s
    ELSE IF s.selected_values + s.step > s.max
         THEN [s EXCEPT !.play_stop_toggle.value = FALSE]
         ELSE s

\* self.play_stop_toggle.value = False, with both observers.
SetPlayStopFalse(s) ==
    IF ~s.play_stop_toggle.value THEN s
    ELSE animate_stopped(
           play_stop_pressed([s EXCEPT !.play_stop_toggle.value = FALSE], FALSE))

\* self.play_stop_toggle.value = True up to the call of animate.
SetPlayStopTrue(s) ==
    play_stop_pressed([s EXCEPT !.play_stop_toggle.value = TRUE], TRUE)

----------------------------------------------------------------------------
\* IndexButtonsWidget (tools.py)

\* value_plus
value_plus(s) ==
    LET tmp_val == s.index_text.value + s.index_wid.step IN
    IF tmp_val > s.index_wid.max
    THEN IF s.index_wid.loop_enabled
         THEN SetIndexText(s, s.index_wid.min)
         ELSE SetIndexText(s, s.index_wid.max)
    ELSE SetIndexText(s, tmp_val)

\* value_minus
value_minus(s) ==
    LET tmp_val == s.index_text.value - s.index_wid.step IN
    IF tmp_val < s.index_wid.min
    THEN IF s.index_wid.loop_enabled
         THEN SetIndexText(s, s.index_wid.max)
         ELSE SetIndexText(s, s.index_wid.min)
    ELSE SetIndexText(s, tmp_val)

\* "Check if update is required" of IndexButtonsWidget.set_widget_state
UpdateRequired(s, index) ==
    \/ index.index # s.index_wid.selected_values
    \/ index.min # s.index_wid.min
    \/ index.max # s.index_wid.max
    \/ index.step # s.index_wid.step

\* IndexButtonsWidget.set_widget_state(index, loop_enabled, text_editable,
\* allow_callback=False).  The index widget has no render function of its own.
\* BoundedIntText refuses a min above its max with a TraitError, which ends
\* the call at the assignment of index_text.min.
IndexButtonsSetWidgetState(s, index, loop_enabled) ==
    LET s1 == [s EXCEPT !.index_wid.loop_enabled = loop_enabled] IN
    IF ~UpdateRequired(s1, index) THEN s1
    ELSE LET s2 == [s1 EXCEPT !.index_wid.min = index.min,
                              !.index_wid.max = index.max,
                              !.index_wid.step = index.step] IN
         IF index.min > s2.index_text.max
         THEN [s2 EXCEPT !.raised = "TraitError"]
         ELSE SetIndexText([s2 EXCEPT !.index_text.min = index.min,
                                      !.index_text.max = index.max],
                           index.index)

\* self.index_wid.set_widget_state(...) as AnimationOptionsWidget calls it.
\* For 'slider' the call passes continuous_update=, a keyword that
\* IndexSliderWidget.set_widget_state(self, index, allow_callback=True) does
\* not take: the call raises TypeError before its body runs.
IndexWidSetWidgetState(s, index) ==
    IF index_style = "slider"
    THEN [s EXCEPT !.raised = "TypeError"]
    ELSE IndexButtonsSetWidgetState(s, index, s.loop_checkbox)

\* AnimationOptionsWidget.set_widget_state(index, allow_callback)
set_widget_state(s, index, allow_callback) ==
    LET render_fn == s.render_function
        s1 == [s EXCEPT !.render_function = FALSE]
        s2 == IF s1.play_stop_toggle.value THEN SetPlayStopFalse(s1) ELSE s1
        s3 == IndexWidSetWidgetState(s2, index)
    IN
    IF s3.raised # "none" THEN s3
    ELSE LET s4 == [SetSelectedValues(s3, index.index)
                      EXCEPT !.min = index.min,
                             !.max = index.max,
                             !.step = index.step,
                             !.render_function = render_fn] IN
         IF ~allow_callback THEN s4
         ELSE IF render_fn THEN [s4 EXCEPT !.renders = @ + 1]
              ELSE [s4 EXCEPT !.raised = "TypeError"]

----------------------------------------------------------------------------
\* The animate loop.

\* FirstCounter without the "i += self.step" of the loop-disabled branch.
FirstCounter_no_step(s) ==
    IF s.loop_checkbox
    THEN IF s.selected_values < s.max
         THEN s.selected_values + s.step
         ELSE s.min
    ELSE s.selected_values

\* The counter before the first test of the while condition.
FirstCounter(s) ==
    IF s.loop_checkbox
    THEN IF s.selected_values < s.max
         THEN s.selected_values + s.step
         ELSE s.min
    ELSE s.selected_values + s.step

\* NextCounter advancing by one instead of by self.step.
NextCounter_unit_step(f) ==
    IF f.loop
    THEN IF f.i < max THEN f.i + 1 ELSE min
    ELSE f.i + 1

\* NextCounter with the loop-disabled branch wrapping to min like the other.
NextCounter_always_wraps(f) ==
    IF f.i < max THEN f.i + step ELSE min

\* "update counter" after kernel.do_one_iteration().
NextCounter(f) ==
    IF f.loop
    THEN IF f.i < max THEN f.i + step ELSE min
    ELSE f.i + step

\* LoopCondition without the test of the play/stop toggle.
LoopCondition_ignores_toggle(f) == f.i <= max

\* The while condition of both branches.
LoopCondition(f) == f.i <= max /\ play_stop_toggle.value

Top == stack[Len(stack)]

ReplaceTop(f) == [stack EXCEPT ![Len(stack)] = f]

\* CanHandle with requests handled during the sleep of a loop as well.
CanHandle_during_sleep ==
    \/ stack = <<>>
    \/ /\ stack # <<>>
       /\ Top.pc \in {"yield", "other_yield", "sleep", "other_sleep"}
       /\ ~Top.handled

\* A request can be handled by the idle kernel, or by the one
\* kernel.do_one_iteration() call of the innermost loop's current tick.
CanHandle ==
    \/ stack = <<>>
    \/ /\ stack # <<>>
       /\ Top.pc \in {"yield", "other_yield"}
       /\ ~Top.handled

Handled ==
    IF stack = <<>> THEN stack ELSE ReplaceTop([Top EXCEPT !.handled = TRUE])

\* The places of an animate call of the widget; the calls of a second
\* animation widget are at "other_check", "other_yield" and "other_sleep".
Places == {"check", "yield", "sleep"}

\* animate is called for the widget from inside the yields of the calls in
\* st: each call of the widget in st now has a later call nested in its yield.
Interrupt(st) ==
    [k \in DOMAIN st |-> IF st[k].pc \in Places
                         THEN [st[k] EXCEPT !.nested = TRUE]
                         ELSE st[k]]

\* PlayPressed with animate called although the toggle's value did not change.
PlayPressed_always_notifies ==
    /\ CanHandle
    /\ op' = "play"
    /\ LET s == SetPlayStopTrue(S) IN
       /\ Apply(s)
       /\ stack' = Append(Interrupt(Handled),
                          [loop |-> s.loop_checkbox, i |-> FirstCounter(s),
                           pc |-> "check", handled |-> FALSE,
                           w |-> s.selected_values, nested |-> FALSE])

\* The front end sets play_stop_toggle.value = True (Play pressed).
PlayPressed ==
    /\ CanHandle
    /\ op' = "play"
    /\ IF play_stop_toggle.value
       THEN /\ stack' = Handled
            /\ Apply(S)
       ELSE LET s == SetPlayStopTrue(S) IN
            /\ Apply(s)
            /\ stack' = Append(Interrupt(Handled),
                               [loop |-> s.loop_checkbox, i |-> FirstCounter(s),
                                pc |-> "check", handled |-> FALSE,
                                w |-> s.selected_values, nested |-> FALSE])

\* StopPressed flipping the toggle instead of assigning False to it.
StopPressed_flips ==
    /\ CanHandle
    /\ op' = "stop"
    /\ IF play_stop_toggle.value
       THEN /\ stack' = Handled
            /\ Apply(SetPlayStopFalse(S))
       ELSE LET s == SetPlayStopTrue(S) IN
            /\ Apply(s)
            /\ stack' = Append(Interrupt(Handled),
                               [loop |-> s.loop_checkbox, i |-> FirstCounter(s),
                                pc |-> "check", handled |-> FALSE,
                                w |-> s.selected_values, nested |-> FALSE])

\* The front end sets play_stop_toggle.value = False (Stop pressed).
StopPressed ==
    /\ CanHandle
    /\ op' = "stop"
    /\ stack' = Handled
    /\ Apply(SetPlayStopFalse(S))

\* Tick without the kernel.do_one_iteration() and the sleep that follow the
\* index write: the loop is back at its while test at once.
Tick_skips_yield ==
    /\ stack # <<>>
    /\ Top.pc = "check"
    /\ LoopCondition(Top)
    /\ op' = "tick"
    /\ Apply(SetIndexText(S, Top.i))
    /\ stack' = ReplaceTop([Top EXCEPT !.i = NextCounter(Top), !.w = Top.i])

\* One pass of the while body up to kernel.do_one_iteration(): the index write.
Tick ==
    /\ stack # <<>>
    /\ Top.pc = "check"
    /\ LoopCondition(Top)
    /\ op' = "tick"
    /\ Apply(SetIndexText(S, Top.i))
    /\ stack' = ReplaceTop([Top EXCEPT !.pc = "yield", !.handled = FALSE, !.w = Top.i])

\* TickRaises with the exception caught inside the while body.
TickRaises_swallowed ==
    /\ stack # <<>>
    /\ Top.pc = "check"
    /\ LoopCondition(Top)
    /\ op' = "tick_raised"
    /\ LET s == SetIndexText(S, Top.i) IN
       /\ s.renders > 0
       /\ Apply([s EXCEPT !.raised = "RenderError"])
    /\ stack' = ReplaceTop([Top EXCEPT !.pc = "yield", !.handled = FALSE, !.w = Top.i])

\* The index write of a tick reaches the render callback, which raises: the
\* traits are already assigned, and the exception leaves the while loop and
\* animate, which has no handler for it.
TickRaises ==
    /\ stack # <<>>
    /\ Top.pc = "check"
    /\ LoopCondition(Top)
    /\ op' = "tick_raised"
    /\ LET s == SetIndexText(S, Top.i) IN
       /\ s.renders > 0
       /\ Apply([s EXCEPT !.raised = "RenderError"])
    /\ stack' = SubSeq(stack, 1, Len(stack) - 1)

\* YieldReturn with the counter left for after the sleep.
YieldReturn_keeps_counter ==
    /\ stack # <<>>
    /\ Top.pc = "yield"
    /\ op' = "update"
    /\ Apply(S)
    /\ stack' = ReplaceTop([Top EXCEPT !.pc = "sleep"])

\* kernel.do_one_iteration() returns and the counter is updated.
YieldReturn ==
    /\ stack # <<>>
    /\ Top.pc = "yield"
    /\ op' = "update"
    /\ Apply(S)
    /\ stack' = ReplaceTop([Top EXCEPT !.pc = "sleep", !.i = NextCounter(Top)])

\* sleep(self.interval_text.value); time.sleep refuses a negative length
\* with ValueError, which leaves the while loop and animate.
Sleep ==
    /\ stack # <<>>
    /\ Top.pc = "sleep"
    /\ op' = "sleep"
    /\ IF interval_text < 0
       THEN /\ Apply([S EXCEPT !.raised = "ValueError"])
            /\ stack' = SubSeq(stack, 1, Len(stack) - 1)
       ELSE /\ Apply(S)
            /\ stack' = ReplaceTop([Top EXCEPT !.pc = "check"])

\* Exit with the toggle set to False in the loop-enabled branch too.
Exit_stops_either_branch ==
    /\ stack # <<>>
    /\ Top.pc = "check"
    /\ ~LoopCondition(Top)
    /\ op' = "exit"
    /\ stack' = SubSeq(stack, 1, Len(stack) - 1)
    /\ IF Top.i > max
       THEN Apply(SetPlayStopFalse(S))
       ELSE Apply(S)

\* The while condition fails and animate returns.
Exit ==
    /\ stack # <<>>
    /\ Top.pc = "check"
    /\ ~LoopCondition(Top)
    /\ op' = "exit"
    /\ stack' = SubSeq(stack, 1, Len(stack) - 1)
    /\ IF ~Top.loop /\ Top.i > max
       THEN Apply(SetPlayStopFalse(S))
       ELSE Apply(S)

\* The user edits the index text; the front end sends the new value.
TextEdited ==
    /\ CanHandle
    /\ op' = "edit"
    /\ stack' = Handled
    /\ \E v \in index_text.min..index_text.max : Apply(SetIndexText(S, v))

\* The user clicks the plus button, which only the 'buttons' style has.
PlusClicked ==
    /\ CanHandle
    /\ index_style = "buttons"
    /\ op' = "plus"
    /\ stack' = Handled
    /\ Apply(value_plus(S))

\* The user clicks the minus button, which only the 'buttons' style has.
MinusClicked ==
    /\ CanHandle
    /\ index_style = "buttons"
    /\ op' = "minus"
    /\ stack' = Handled
    /\ Apply(value_minus(S))

\* Some handler calls set_widget_state(index, allow_callback).
SetWidgetState(index, allow_callback) ==
    /\ CanHandle
    /\ ValidRange(index)
    /\ op' = "set_widget_state"
    /\ stack' = Handled
    /\ Apply(set_widget_state(S, index, allow_callback))

\* The user clicks the play-options (wrench) toggle; a disabled button
\* cannot be clicked.
PlayOptionsPressed ==
    /\ CanHandle
    /\ ~play_options_toggle.disabled
    /\ op' = "options"
    /\ stack' = Handled
    /\ Apply(SetPlayOptions(S, ~play_options_toggle.value))

\* The user ticks the Loop checkbox, which is inside loop_interval_box.
LoopChecked ==
    /\ CanHandle
    /\ loop_interval_box.visible
    /\ op' = "loop"
    /\ stack' = Handled
    /\ Apply([S EXCEPT !.loop_checkbox = ~loop_checkbox])

----------------------------------------------------------------------------
\* LogoWidget (tools.py) and the module globals that memoize its logos.

\* MENPO_LOGO_SCALE = None and MENPO_<STYLE>_LOGO = None
NoScale == 0
NoLogo == [style |-> "None", scale |-> NoScale]

LogoStyles == {"minimal", "danger", "info", "warning", "success"}
\* The scale arguments: two different values.
Scales == {1, 2}

\* mio.import_image(logos_path / "menpo_<style>.jpg").rescale(scale)
Rescaled(style, scale) == [style |-> style, scale |-> scale]

\* LogoWidget.__init__(scale, style): every style but 'success' stores the
\* scale of the logo it recomputes in MENPO_LOGO_SCALE; self.image holds the
\* memoized logo of the style.
LogoWidget(scale, style) ==
    /\ stack = <<>>
    /\ op' = "logo"
    /\ LET reload == MENPO_LOGO[style] = NoLogo \/ scale # MENPO_LOGO_SCALE IN
       /\ MENPO_LOGO' = IF reload
                        THEN [MENPO_LOGO EXCEPT ![style] = Rescaled(style, scale)]
                        ELSE MENPO_LOGO
       /\ MENPO_LOGO_SCALE' = IF reload /\ style # "success"
                              THEN scale
                              ELSE MENPO_LOGO_SCALE
    /\ image' = MENPO_LOGO'[style]
    /\ renders' = 0
    /\ raised' = "none"
    /\ UNCHANGED <<widget, stack, interval_text, index_style, selected_index, other>>

InitLogo ==
    /\ MENPO_LOGO = [st \in LogoStyles |-> NoLogo]
    /\ MENPO_LOGO_SCALE = NoScale
    /\ image = NoLogo

----------------------------------------------------------------------------
\* The user edits the interval text, which is inside loop_interval_box.
IntervalEdited ==
    /\ CanHandle
    /\ loop_interval_box.visible
    /\ op' = "interval"
    /\ stack' = Handled
    /\ \E v \in Intervals \ {interval_text} : interval_text' = v
    /\ renders' = 0
    /\ raised' = "none"
    /\ UNCHANGED <<widget, index_style, MENPO_LOGO, MENPO_LOGO_SCALE, image,
                   selected_index, other>>

\* The tabs of options_box in visualize_fitting_result: Info, Result,
\* Renderer, CED or Error type, Export.
Tabs == 0..4
\* The position of save_figure_wid among the children of options_box.
SaveFigureTab == 4

\* save_fig_tab_fun(name, value): image_number_wid has no attribute
\* stop_options_toggle, so the assignment raises AttributeError.
save_fig_tab_fun(s, value) ==
    IF value = 3 /\ s.play_options_toggle.value
    THEN [s EXCEPT !.raised = "AttributeError"]
    ELSE s

\* The user selects another tab of options_box.
TabSelected(value) ==
    /\ CanHandle
    /\ value # selected_index
    /\ op' = "tab"
    /\ stack' = Handled
    /\ selected_index' = value
    /\ renders' = save_fig_tab_fun(S, value).renders
    /\ raised' = save_fig_tab_fun(S, value).raised
    /\ UNCHANGED <<widget, interval_text, index_style, MENPO_LOGO,
                   MENPO_LOGO_SCALE, image, other>>

\* The index of a second AnimationOptionsWidget, and the widget when built.
OtherIndex == [min |-> 0, max |-> 1, step |-> 1, index |-> 0]

OtherWidget(loop_enabled) ==
    [value |-> FALSE, selected_values |-> OtherIndex.index, loop |-> loop_enabled]

\* What is there beside the widget: the first tab is shown and a second
\* animation widget is idle.
InitElsewhere ==
    /\ selected_index = 0
    /\ other = OtherWidget(TRUE)

\* The deepest nesting of animate calls that is followed.
MaxDepth == 3

\* What the second widget's handlers leave alone.
beside == <<min, max, step, selected_values, render_function, loop_checkbox,
            play_stop_toggle, play_options_toggle, loop_interval_box,
            index_wid, index_text, toggle_style, renders, raised,
            interval_text, index_style, MENPO_LOGO, MENPO_LOGO_SCALE, image,
            selected_index>>

\* The counter of the second widget before the first test of its while
\* condition.
OtherFirstCounter ==
    FirstCounter([loop_checkbox |-> other.loop,
                  selected_values |-> other.selected_values,
                  min |-> OtherIndex.min, max |-> OtherIndex.max,
                  step |-> OtherIndex.step])

\* "update counter" in the second widget's animate.
OtherNextCounter(f) ==
    IF f.loop
    THEN IF f.i < OtherIndex.max THEN f.i + OtherIndex.step ELSE OtherIndex.min
    ELSE f.i + OtherIndex.step

\* The while condition of the second widget's animate.
OtherLoopCondition(f) == f.i <= OtherIndex.max /\ other.value

\* Play is pressed on the second widget: its animate runs inside the handler.
OtherPlayPressed ==
    /\ CanHandle
    /\ op' = "other_play"
    /\ IF other.value
       THEN /\ stack' = Handled
            /\ other' = other
       ELSE /\ other' = [other EXCEPT !.value = TRUE]
            /\ stack' = Append(Handled,
                               [loop |-> other.loop, i |-> OtherFirstCounter,
                                pc |-> "other_check", handled |-> FALSE,
                                w |-> other.selected_values, nested |-> FALSE])
    /\ UNCHANGED beside

\* Stop is pressed on the second widget.
OtherStopPressed ==
    /\ CanHandle
    /\ op' = "other_stop"
    /\ stack' = Handled
    /\ other' = [other EXCEPT !.value = FALSE]
    /\ UNCHANGED beside

\* The index write of a tick of the second widget's loop.
OtherTick ==
    /\ stack # <<>>
    /\ Top.pc = "other_check"
    /\ OtherLoopCondition(Top)
    /\ op' = "other_tick"
    /\ other' = [other EXCEPT !.selected_values = Top.i]
    /\ stack' = ReplaceTop([Top EXCEPT !.pc = "other_yield", !.handled = FALSE,
                                       !.w = Top.i])
    /\ UNCHANGED beside

\* kernel.do_one_iteration() returns in the second widget's loop.
OtherYieldReturn ==
    /\ stack # <<>>
    /\ Top.pc = "other_yield"
    /\ op' = "other_update"
    /\ stack' = ReplaceTop([Top EXCEPT !.pc = "other_sleep",
                                       !.i = OtherNextCounter(Top)])
    /\ UNCHANGED <<beside, other>>

\* The sleep of the second widget's loop, whose interval is positive.
OtherSleep ==
    /\ stack # <<>>
    /\ Top.pc = "other_sleep"
    /\ op' = "other_sleep"
    /\ stack' = ReplaceTop([Top EXCEPT !.pc = "other_check"])
    /\ UNCHANGED <<beside, other>>

\* The while condition of the second widget's loop fails and animate returns.
OtherExit ==
    /\ stack # <<>>
    /\ Top.pc = "other_check"
    /\ ~OtherLoopCondition(Top)
    /\ op' = "other_exit"
    /\ stack' = SubSeq(stack, 1, Len(stack) - 1)
    /\ other' = IF ~Top.loop /\ Top.i > OtherIndex.max
                THEN [other EXCEPT !.value = FALSE]
                ELSE other
    /\ UNCHANGED beside

\* AnimationOptionsWidget(index, render_function, loop_enabled=...)
InitWidget ==
    /\ \E index \in IndexDicts, loop_enabled \in BOOLEAN, rf \in BOOLEAN :
        /\ ValidRange(index)
        /\ InRange(index)
        /\ min = index.min
        /\ max = index.max
        /\ step = index.step
        /\ selected_values = index.index
        /\ render_function = rf
        /\ loop_checkbox = loop_enabled
        /\ index_wid = [min |-> index.min, max |-> index.max, step |-> index.step,
                        loop_enabled |-> loop_enabled,
                        selected_values |-> index.index]
        /\ index_text = [min |-> index.min, max |-> index.max, value |-> index.index]
    /\ play_stop_toggle = [value |-> FALSE, icon |-> "fa-play",
                           button_style |-> toggle_style.play]
    /\ play_options_toggle = [value |-> FALSE, disabled |-> FALSE]
    /\ loop_interval_box = [visible |-> FALSE]
    /\ stack = <<>>
    /\ op = "init"
    /\ renders = 0
    /\ raised = "none"

\* The widget built with the defaults index_style='buttons', interval=0.2
\* and style='minimal'.
Init ==
    /\ toggle_style = ToggleStyles("minimal")
    /\ InitWidget
    /\ interval_text = DefaultInterval
    /\ index_style = "buttons"
    /\ InitLogo
    /\ InitElsewhere

Next ==
    \/ PlayPressed
    \/ StopPressed
    \/ Tick
    \/ YieldReturn
    \/ Sleep
    \/ Exit
    \/ TextEdited
    \/ PlusClicked
    \/ MinusClicked
    \/ \E index \in IndexDicts, allow_callback \in BOOLEAN :
          SetWidgetState(index, allow_callback)
    \/ PlayOptionsPressed
    \/ LoopChecked

Spec == Init /\ [][Next]_vars

\* The widget with a render callback that may raise.
NextRaise ==
    \/ Next
    \/ TickRaises

SpecRaise == Init /\ [][NextRaise]_vars

\* The widget built with any interval, which the user may edit.
InitInterval ==
    /\ toggle_style = ToggleStyles("minimal")
    /\ InitWidget
    /\ interval_text \in Intervals
    /\ index_style = "buttons"
    /\ InitLogo
    /\ InitElsewhere

NextInterval ==
    \/ Next
    \/ IntervalEdited

SpecInterval == InitInterval /\ [][NextInterval]_vars

\* The widget built with either index_style.
InitStyle ==
    /\ toggle_style = ToggleStyles("minimal")
    /\ InitWidget
    /\ interval_text = DefaultInterval
    /\ index_style \in IndexStyles
    /\ InitLogo
    /\ InitElsewhere

SpecStyle == InitStyle /\ [][Next]_vars

\* Some handler or cell calls predefined_style(style).
PredefinedStyle(style) ==
    /\ CanHandle
    /\ op' = "predefined_style"
    /\ stack' = Handled
    /\ Apply(predefined_style(S, style))

\* The widget built with either kind of style, a render callback and unit
\* steps, and restyled at any time.
InitPredefined ==
    /\ toggle_style \in {ToggleStyles(style) : style \in PredefinedStyles}
    /\ InitWidget
    /\ render_function
    /\ loop_checkbox
    /\ step = 1
    /\ interval_text = DefaultInterval
    /\ index_style = "buttons"
    /\ InitLogo
    /\ InitElsewhere

NextPredefined ==
    \/ PlayPressed
    \/ StopPressed
    \/ Tick
    \/ YieldReturn
    \/ Sleep
    \/ Exit
    \/ TextEdited
    \/ PlusClicked
    \/ MinusClicked
    \/ \E index \in IndexDicts, allow_callback \in BOOLEAN :
          /\ index.step = 1
          /\ SetWidgetState(index, allow_callback)
    \/ PlayOptionsPressed
    \/ LoopChecked
    \/ \E style \in PredefinedStyles : PredefinedStyle(style)

SpecPredefined == InitPredefined /\ [][NextPredefined]_vars

\* The widget built with a render callback, unit steps and any interval; the
\* user may open the play options and edit the interval and the loop setting.
InitOptions ==
    /\ InitInterval
    /\ render_function
    /\ loop_checkbox
    /\ step = 1

NextOptions ==
    \/ PlayPressed
    \/ StopPressed
    \/ Tick
    \/ YieldReturn
    \/ Sleep
    \/ Exit
    \/ TextEdited
    \/ PlusClicked
    \/ MinusClicked
    \/ \E index \in IndexDicts, allow_callback \in BOOLEAN :
          /\ index.step = 1
          /\ SetWidgetState(index, allow_callback)
    \/ PlayOptionsPressed
    \/ LoopChecked
    \/ IntervalEdited

SpecOptions == InitOptions /\ [][NextOptions]_vars

\* visualize_fitting_result with several fitting results: image_number_wid is
\* built on {'min': 0, 'max': n - 1, 'step': 1, 'index': 0} with
\* loop_enabled=True and a render function, beside the tabs of options_box.
InitTabs ==
    /\ Init
    /\ min = 0 /\ max >= 1 /\ step = 1 /\ selected_values = 0
    /\ loop_checkbox
    /\ render_function

NextTabs ==
    \/ PlayPressed
    \/ StopPressed
    \/ Tick
    \/ YieldReturn
    \/ Sleep
    \/ Exit
    \/ TextEdited
    \/ PlusClicked
    \/ MinusClicked
    \/ PlayOptionsPressed
    \/ LoopChecked
    \/ \E value \in Tabs : TabSelected(value)

SpecTabs == InitTabs /\ [][NextTabs]_vars

\* Two animation widgets in one notebook: the widget, built with a render
\* callback and min = index = 0, and the second one, with or without Loop.
InitTwo ==
    /\ toggle_style = ToggleStyles("minimal")
    /\ InitWidget
    /\ min = 0
    /\ selected_values = 0
    /\ render_function
    /\ interval_text = DefaultInterval
    /\ index_style = "buttons"
    /\ InitLogo
    /\ selected_index = 0
    /\ \E loop_enabled \in BOOLEAN : other = OtherWidget(loop_enabled)

NextTwo ==
    \/ Len(stack) < MaxDepth /\ PlayPressed
    \/ StopPressed
    \/ Tick
    \/ YieldReturn
    \/ Sleep
    \/ Exit
    \/ TextEdited
    \/ PlayOptionsPressed
    \/ LoopChecked
    \/ Len(stack) < MaxDepth /\ OtherPlayPressed
    \/ OtherStopPressed
    \/ OtherTick
    \/ OtherYieldReturn
    \/ OtherSleep
    \/ OtherExit

SpecTwo == InitTwo /\ [][NextTwo]_vars

\* LogoWidgets are built one after another, beside one idle animation widget.
InitLogoWidgets ==
    /\ Init
    /\ min = 0 /\ max = MaxIndex /\ step = 1 /\ selected_values = 0
    /\ loop_checkbox
    /\ render_function

NextLogo ==
    \E scale \in Scales, style \in LogoStyles : LogoWidget(scale, style)

SpecLogo == InitLogoWidgets /\ [][NextLogo]_vars

\* animate is sequential code: once called, each of its steps is taken;
\* kernel.do_one_iteration() and sleep() return.
FairSpec ==
    /\ Spec
    /\ WF_vars(Tick)
    /\ WF_vars(YieldReturn)
    /\ WF_vars(Sleep)
    /\ WF_vars(Exit)

----------------------------------------------------------------------------
\* Properties

Running == stack # <<>>

\* The selected index lies in the widget's range.
IndexInRange == min <= selected_values /\ selected_values <= max

\* max - min is an exact multiple of step.
Divisible == (max - min) % step = 0

\* The index after w in the sequence w+step, ..., max, min, min+step, ...
Successor(w) == IF w + step <= max THEN w + step ELSE min

\* C1: with loop on and a valid range whose length is a multiple of step, a
\* started animation keeps writing the periodic sequence current+step, ...,
\* max, min, min+step, ...: while the toggle is True a loop is running and
\* the value it writes next is the successor of the value it wrote last.
C1_PeriodicSequence ==
    (loop_checkbox /\ play_stop_toggle.value /\ IndexInRange /\ Divisible)
        => /\ Running
           /\ Top.loop
           /\ Top.pc = "check" => Top.i = Successor(Top.w)

\* C2: with loop off on a valid range, every tick writes the previous tick's
\* value (the start index for the first tick) plus step, and the loop leaves
\* a True toggle only when that sum exceeds max, setting the toggle to False
\* and leaving the index as it is.
C2_NonLoopSequence ==
    [][Running /\ ~Top.loop /\ IndexInRange =>
         /\ op' = "tick" =>
              /\ index_text'.value = Top.w + step
              /\ selected_values' = Top.w + step
              /\ Top.w + step <= max
         /\ (op' = "exit" /\ play_stop_toggle.value) =>
              /\ Top.w + step > max
              /\ ~play_stop_toggle'.value
              /\ stack' = <<>>
              /\ selected_values' = selected_values
         /\ (Top.pc = "check" /\ play_stop_toggle.value /\ Top.w + step > max) =>
              op' = "exit"]_vars

\* C2 witness: a loop-off animation over several steps has written max.
C2_Witness ==
    /\ Running /\ ~Top.loop /\ Top.pc = "yield"
    /\ min = 0 /\ max = MaxIndex /\ step = 1
    /\ Top.w = max /\ selected_values = max

\* C3: once the toggle has been set to False at a yield, the loop writes no
\* further index: every index write happens with the toggle True, and a loop
\* that finds the toggle False at its while test returns.
C3_StopHalts ==
    [][/\ op' = "tick" => play_stop_toggle.value
       /\ (Running /\ Top.pc \in {"sleep", "check"} /\ ~play_stop_toggle.value) =>
            /\ selected_values' = selected_values
            /\ index_text' = index_text
            /\ op' \in {"sleep", "exit"}]_vars

\* C3 witness: a stop was handled at the yield of a loop that had more to write.
C3_Witness ==
    /\ Running /\ Top.pc = "check" /\ Top.i <= max
    /\ ~play_stop_toggle.value /\ op = "sleep"

\* C4: Play while the toggle is True starts no second loop and changes
\* neither the widget nor the counter of the loop in progress.
C4_StartWhileRunningNoOp ==
    [][(op' = "play" /\ play_stop_toggle.value) =>
         /\ UNCHANGED widget
         /\ Len(stack') = Len(stack)
         /\ renders' = 0
         /\ Running => /\ Top'.i = Top.i
                       /\ Top'.w = Top.w
                       /\ Top'.loop = Top.loop
                       /\ Top'.pc = Top.pc]_vars

\* C4 witness: Play was handled at the yield of the running loop.
C4_Witness ==
    /\ op = "play" /\ Running /\ Top.pc = "yield" /\ Top.handled
    /\ play_stop_toggle.value

\* C5: set_widget_state during an animation leaves the toggle False and
\* min, max, step and the selected index equal to the given values.
C5_SetRangeStopsAndUpdates ==
    [][\A index \in IndexDicts, allow_callback \in BOOLEAN :
         (play_stop_toggle.value /\ SetWidgetState(index, allow_callback)) =>
            /\ ~play_stop_toggle'.value
            /\ min' = index.min
            /\ max' = index.max
            /\ step' = index.step
            /\ selected_values' = index.index]_vars

\* C6: the selected index always lies within [min, max], and no
\* set_widget_state call raises.
C6_IndexWithinBounds == IndexInRange /\ raised = "none"

\* C7 (as claimed): every tick changes the index and calls the registered
\* render callback exactly once.
C7_RenderOncePerTick ==
    [][(op' = "tick" /\ render_function) =>
         /\ selected_values' # selected_values
         /\ renders' = 1]_vars

\* C7 (amended): a tick calls the registered render callback exactly once if
\* it changes the selected index and not at all otherwise; it changes the
\* index whenever the value written differs from an index the index text
\* agrees with and can hold.
C7_RenderOncePerChange ==
    [][(op' = "tick" /\ render_function) =>
         /\ renders' = IF selected_values' # selected_values THEN 1 ELSE 0
         /\ (/\ index_text.value = selected_values
             /\ index_wid.selected_values = selected_values
             /\ Top.i >= index_text.min /\ Top.i <= index_text.max) =>
               /\ selected_values' = Top.i
               /\ renders' = IF Top.i # selected_values THEN 1 ELSE 0]_vars

\* C7 witness: a tick of a one-element range wrote the index it already had.
C7_Witness ==
    /\ op = "tick" /\ render_function /\ renders = 0
    /\ min = max /\ selected_values = min /\ Top.loop

\* C8: Stop while the toggle is False raises nothing and changes nothing.
C8_StopWhenIdleNoOp ==
    [][(op' = "stop" /\ ~play_stop_toggle.value) =>
         /\ UNCHANGED widget
         /\ UNCHANGED stack
         /\ renders' = 0
         /\ raised' = "none"]_vars

\* C8 witness: Stop was handled while the play options were open, which
\* they are only when the toggle is False.
C8_Witness ==
    /\ op = "stop" /\ play_options_toggle.value /\ ~play_stop_toggle.value

\* C9: Play with loop off and the index at max writes nothing: animate's
\* while loop is not entered, the index and the render count stay as they
\* are, and animate returns with the toggle False.
C9_StartAtMaxStopsAtOnce ==
    [][/\ (/\ op' = "play" /\ ~play_stop_toggle.value
           /\ ~loop_checkbox /\ selected_values = max) =>
            /\ Top'.i > max' /\ Top'.pc = "check"
            /\ selected_values' = selected_values
            /\ index_text' = index_text
            /\ renders' = 0
       /\ (Running /\ ~Top.loop /\ Top.pc = "check" /\ Top.i > max) =>
            /\ op' = "exit"
            /\ stack' = SubSeq(stack, 1, Len(stack) - 1)
            /\ ~play_stop_toggle'.value
            /\ selected_values' = selected_values
            /\ index_text' = index_text
            /\ renders' = 0]_vars

\* C9 witness: Play was just pressed with loop off and the index at max.
C9_Witness ==
    /\ op = "play" /\ Running /\ ~Top.loop /\ Top.pc = "check"
    /\ selected_values = max /\ Top.w = max /\ min < max

\* C10: with loop on and the index in range, the loop never stops by
\* itself and never holds a counter above max at its while test.
C10_LoopNeverStops ==
    (loop_checkbox /\ play_stop_toggle.value /\ IndexInRange)
        => /\ Running
           /\ Top.pc = "check" => Top.i <= max

\* C11: the toggle starts False; it goes False -> True only on Play, and
\* True -> False only on Stop, on set_widget_state, or when the loop-disabled
\* branch of animate returns with its counter above max; no step of a
\* loop-enabled animate changes the toggle.
C11_TwoStateMachine ==
    /\ [](op = "init" => ~play_stop_toggle.value)
    /\ [][/\ (~play_stop_toggle.value /\ play_stop_toggle'.value) => op' = "play"
          /\ (play_stop_toggle.value /\ ~play_stop_toggle'.value) =>
               \/ op' \in {"stop", "set_widget_state"}
               \/ op' = "exit" /\ ~Top.loop /\ Top.i > max
          /\ (Running /\ Top.loop /\ op' \in {"tick", "update", "sleep", "exit"}) =>
               play_stop_toggle'.value = play_stop_toggle.value]_vars

\* C11 witness: a loop-enabled animate has returned by itself and the toggle
\* is still True.
C11_Witness ==
    /\ op = "exit" /\ stack = <<>> /\ loop_checkbox /\ play_stop_toggle.value

\* C12: a running loop-disabled animation terminates: every tick writes a
\* larger value than the one before, none above max, and eventually animate
\* has returned and the toggle is False.
C12_NonLoopTerminates ==
    /\ [][(Running /\ ~Top.loop /\ op' = "tick") =>
            /\ Top'.w > Top.w
            /\ Top'.w <= max]_vars
    /\ (Running /\ ~Top.loop) ~> (stack = <<>> /\ ~play_stop_toggle.value)

\* C12 witness: a loop-disabled animation that ticked up to max has returned,
\* leaving the toggle False.
C12_Witness ==
    /\ op = "exit" /\ stack = <<>> /\ ~loop_checkbox /\ ~play_stop_toggle.value
    /\ selected_values = max /\ min < max

\* C13: a render callback that raises during a tick ends that animate call
\* with the exception: its loop is gone, index writes of the animation need
\* a running loop, and a new loop starts only when Play turns the toggle
\* from False to True.
C13_RenderFailureIsFatal ==
    [][/\ op' = "tick_raised" =>
            /\ raised' = "RenderError"
            /\ stack' = SubSeq(stack, 1, Len(stack) - 1)
            /\ stack' = <<>>
       /\ op' \in {"tick", "tick_raised"} => Running
       /\ Len(stack') > Len(stack) =>
            /\ op' = "play"
            /\ ~play_stop_toggle.value
            /\ play_stop_toggle'.value]_vars

\* C13 witness: the render callback raised during a tick.
C13_Witness ==
    /\ op = "tick_raised" /\ raised = "RenderError" /\ stack = <<>>
    /\ render_function /\ play_stop_toggle.value

\* C14: with an interval of zero or below, the sleep of a tick raises nothing
\* and the loop goes on to its next while test, as it does with a positive
\* interval.
C14_NonPositiveInterval ==
    [][(op' = "sleep" /\ interval_text <= 0) =>
         /\ raised' = "none"
         /\ stack' = ReplaceTop([Top EXCEPT !.pc = "check"])]_vars

\* C15: set_widget_state(index, allow_callback) on a widget with a render
\* callback calls it exactly once when allow_callback is True and not at all
\* when it is False, whatever else the call changes.
C15_CallbackOncePerSetState ==
    [][\A index \in IndexDicts, allow_callback \in BOOLEAN :
         (render_function /\ SetWidgetState(index, allow_callback)) =>
            renders' = IF allow_callback THEN 1 ELSE 0]_vars

\* C16: for both index styles, set_widget_state with an index inside its
\* range raises nothing and leaves min, max, step and the selected index of
\* the widget and of its index sub-widget equal to the given values.
C16_SetStateBothStyles ==
    [][\A index \in IndexDicts, allow_callback \in BOOLEAN :
         (/\ render_function
          /\ InRange(index)
          /\ SetWidgetState(index, allow_callback)) =>
            /\ raised' = "none"
            /\ min' = index.min /\ max' = index.max /\ step' = index.step
            /\ selected_values' = index.index
            /\ index_text' = [min |-> index.min, max |-> index.max,
                              value |-> index.index]
            /\ index_wid'.selected_values = index.index]_vars

\* C17: a plus click sets the index to index+step when that is <= max,
\* otherwise to min if loop_enabled else to max; a minus click sets it to
\* index-step when that is >= min, otherwise to max if loop_enabled else to
\* min; after a click the index is within [min, max].
C17_PlusMinusClicks ==
    [][/\ op' = "plus" =>
            index_wid'.selected_values =
                IF index_wid.selected_values + index_wid.step <= index_wid.max
                THEN index_wid.selected_values + index_wid.step
                ELSE IF index_wid.loop_enabled THEN index_wid.min
                     ELSE index_wid.max
       /\ op' = "minus" =>
            index_wid'.selected_values =
                IF index_wid.selected_values - index_wid.step >= index_wid.min
                THEN index_wid.selected_values - index_wid.step
                ELSE IF index_wid.loop_enabled THEN index_wid.max
                     ELSE index_wid.min
       /\ op' \in {"plus", "minus"} =>
            /\ index_wid'.min <= index_wid'.selected_values
            /\ index_wid'.selected_values <= index_wid'.max
            /\ index_text'.value = index_wid'.selected_values]_vars

\* C18: the ticks of a loop are strictly sequential: an index write is made
\* by the innermost loop at its while test, right after Play or after the
\* sleep of the tick before; the write and its render callback are over
\* when the step ends, with the loop inside its yield; and from the yield the
\* loop reaches its next write only through the return of the yield and the
\* sleep, whatever is handled during the yield.
C18_TicksSequential ==
    [][/\ op' = "tick" =>
            /\ op \in {"play", "sleep"}
            /\ Top.pc = "check"
            /\ Len(stack') = Len(stack)
            /\ Top'.pc = "yield" /\ ~Top'.handled
            /\ renders' <= 1
       /\ (Running /\ Top.pc = "yield" /\ Len(stack') = Len(stack)) =>
            \/ op' = "update" /\ Top'.pc = "sleep"
            \/ Top'.pc = "yield" /\ Top'.handled /\ Top'.i = Top.i /\ Top'.w = Top.w
       /\ (Running /\ Top.pc = "sleep") =>
            /\ op' = "sleep"
            /\ UNCHANGED widget]_vars

\* C18 witness: a loop has made a further tick, rendered, and is inside the
\* yield of that tick.
C18_Witness ==
    /\ op = "tick" /\ Running /\ Top.pc = "yield" /\ ~Top.handled
    /\ min = 0 /\ max = MaxIndex /\ step = 1
    /\ Top.w = 2 /\ selected_values = 2
    /\ renders = 1 /\ ~Top.loop

\* C19: the icon of the play/stop button follows the toggle: it is
\* 'fa-stop' exactly when the toggle's value is True, and whenever the value
\* is False (at first, after Stop, after set_widget_state, after the stop at
\* the bound) the button shows 'fa-play' with the play style.
C19_IndicatorFollowsFlag ==
    /\ play_stop_toggle.icon \in {"fa-play", "fa-stop"}
    /\ (play_stop_toggle.icon = "fa-stop") <=> play_stop_toggle.value
    /\ ~play_stop_toggle.value =>
         /\ play_stop_toggle.icon = "fa-play"
         /\ play_stop_toggle.button_style = toggle_style.play

\* C19 witness: a loop-disabled animation of a coloured widget has stopped
\* at the bound and the button is back to the play icon and style.
C19_Witness ==
    /\ op = "exit" /\ stack = <<>> /\ ~loop_checkbox
    /\ ~play_stop_toggle.value
    /\ play_stop_toggle.icon = "fa-play"
    /\ play_stop_toggle.button_style = "success"
    /\ toggle_style.stop = "danger"

\* C20: the image a new LogoWidget(scale, style) stores is the logo of the
\* requested style rescaled with the requested scale, whatever LogoWidgets
\* were built before.
C20_LogoOfRequestedScale ==
    [][\A scale \in Scales, style \in LogoStyles :
         LogoWidget(scale, style) => image' = Rescaled(style, scale)]_vars

\* C21 (as claimed): a tick is the index write, one yield, the sleep and
\* only then the recomputation of the counter: the return of the yield leaves
\* the counter as it is and the counter is recomputed when the sleep is over;
\* the toggle is read again before the next write.
C21_SleepThenRecompute ==
    [][/\ op' = "tick" =>
            /\ Top.pc = "check" /\ play_stop_toggle.value
            /\ Top'.pc = "yield" /\ ~Top'.handled
       /\ (Running /\ Top.pc = "yield" /\ Top.handled) => op' = "update"
       /\ op' = "update" => /\ Top'.pc = "sleep"
                            /\ Top'.i = Top.i
       /\ op' = "sleep" => /\ Top'.pc = "check"
                           /\ Top'.i = NextCounter(Top)]_vars

\* C21 (amended): a tick is the index write, one yield that handles at most
\* one request, the recomputation of the counter and then the sleep, which
\* leaves the counter as it is; the toggle is read again after the sleep and
\* before the next write.
C21_RecomputeThenSleep ==
    [][/\ op' = "tick" =>
            /\ Top.pc = "check" /\ play_stop_toggle.value
            /\ Top'.pc = "yield" /\ ~Top'.handled
       /\ (Running /\ Top.pc = "yield" /\ Top.handled) => op' = "update"
       /\ op' = "update" => /\ Top.pc = "yield"
                            /\ Top'.pc = "sleep"
                            /\ Top'.i = NextCounter(Top)
       /\ (Running /\ Top.pc = "sleep") =>
            /\ op' = "sleep"
            /\ Top'.pc = "check"
            /\ Top'.i = Top.i
            /\ UNCHANGED widget]_vars

\* C21 witness: the yield of a tick has returned and the loop is about to
\* sleep with its counter already moved past the value it wrote.
C21_Witness ==
    /\ op = "update" /\ Running /\ Top.pc = "sleep"
    /\ Top.i = Top.w + step /\ selected_values = Top.w

\* C22: selecting a tab raises nothing, and selecting the save-figure tab
\* while the image animation is running turns its toggle False.
C22_SaveTabStopsAnimation ==
    [][op' = "tab" =>
         /\ raised' = "none"
         /\ (play_stop_toggle.value /\ selected_index' = SaveFigureTab) =>
               ~play_stop_toggle'.value]_vars

\* C23: play_options_toggle.disabled equals the toggle's value in every
\* state; while the toggle is True the play options are off and the
\* loop/interval box is hidden, and no step changes the loop setting or the
\* interval.
C23_OptionsLockedWhileRunning ==
    /\ [](play_options_toggle.disabled = play_stop_toggle.value)
    /\ [](play_stop_toggle.value =>
            /\ ~play_options_toggle.value
            /\ ~loop_interval_box.visible)
    /\ [][play_stop_toggle.value =>
            /\ loop_checkbox' = loop_checkbox
            /\ interval_text' = interval_text]_vars

\* C23 witness: Stop was handled at a yield of a loop that was started with
\* an edited interval, and the play options are enabled again.
C23_Witness ==
    /\ op = "stop" /\ Running /\ Top.handled
    /\ ~play_stop_toggle.value
    /\ ~play_options_toggle.disabled
    /\ interval_text = 0 /\ ~Top.loop

\* C24: the toggle is True only while an animate loop of the widget is
\* executing: in no state is the toggle True with every animate call returned.
C24_RunningFlagHasLoop ==
    play_stop_toggle.value => Running

C26_OuterLoopWritesNoMore ==
    [][/\ (op' = "play" /\ Len(stack') > Len(stack)) =>
            \A k \in 1..Len(stack) :
                stack[k].pc \in Places =>
                    /\ stack'[k].pc = "yield"
                    /\ stack'[k].nested
       /\ op' = "tick" => ~Top.nested]_vars

\* A loop of the second widget, started inside a yield of a loop of the
\* widget, has not returned.
SecondInsideFirst ==
    \E k \in 1..Len(stack), n \in 1..Len(stack) :
        /\ k < n
        /\ stack[k].pc \in Places
        /\ stack[n].pc \notin Places

\* C27 as stated: a second widget started during a yield of the widget's loop
\* runs its loop inside that yield, the widget performs no tick while that
\* loop of the second widget has not returned, and it ticks only with its
\* toggle True.
C27_NoTickUntilSecondReturns ==
    [][/\ (op' = "other_play" /\ Len(stack') > Len(stack)) =>
            /\ SubSeq(stack', 1, Len(stack)) = Handled
            /\ stack # <<>> => Top.pc \in {"yield", "other_yield"}
       /\ op' = "tick" =>
            /\ ~SecondInsideFirst
            /\ play_stop_toggle.value]_vars

\* C27, amended: the loops tick one at a time, the innermost only. A second
\* widget started during a yield of the widget's loop runs its loop inside
\* that yield; every call beneath the innermost one stays in its yield, so
\* the interrupted loop performs no tick until the loops above it have
\* returned; a tick is a step of the innermost call with its widget's toggle
\* True and leaves the other widget's index alone. (A new loop of the widget
\* started from a yield of the second loop does tick before that loop returns.)
C27_InnermostLoopTicks ==
    /\ [](\A k \in 1..(Len(stack) - 1) :
              stack[k].pc \in {"yield", "other_yield"} /\ stack[k].handled)
    /\ [][/\ (op' = "other_play" /\ Len(stack') > Len(stack)) =>
               /\ SubSeq(stack', 1, Len(stack)) = Handled
               /\ stack # <<>> => Top.pc \in {"yield", "other_yield"}
          /\ op' = "tick" =>
               /\ Top.pc = "check"
               /\ play_stop_toggle.value
               /\ Len(stack') = Len(stack)
               /\ \A k \in 1..(Len(stack) - 1) : stack'[k] = stack[k]
               /\ other' = other
          /\ op' = "other_tick" =>
               /\ Top.pc = "other_check"
               /\ other.value
               /\ Len(stack') = Len(stack)
               /\ \A k \in 1..(Len(stack) - 1) : stack'[k] = stack[k]
               /\ selected_values' = selected_values]_vars

\* C27 witness: a new loop of the widget has ticked on top of a loop of the
\* second widget that runs inside the yield of the widget's interrupted loop.
C27_Witness ==
    /\ op = "tick"
    /\ Len(stack) = 3
    /\ stack[1].pc = "yield" /\ stack[1].nested
    /\ stack[2].pc = "other_yield"
    /\ stack[3].pc = "yield"
    /\ other.value

====
